---- MODULE Spec2Model ----
(***************************************************************************)
(* Model of the weather-routed path planner of sailing-regates-route:      *)
(* the corridor sampler (core/grid.py), the graph builder and A* search    *)
(* (core/routing.py), the wind lookup (core/weather.py) and the part of    *)
(* RouteService.calculate_route that drives them (Spec); the handler of    *)
(* POST /routes/calculate around the service (SpecApi); direct calls of    *)
(* the optimizer (SpecOptimizer); and the wind provider                    *)
(* WeatherService.get_weather_data (SpecWeather).                          *)
(*                                                                         *)
(* Geometry.  A point is a pair of integer coordinates counted in half     *)
(* annulus radii: one unit is min_distance_nm / 120 degrees of longitude   *)
(* (x) or latitude (y).  At the latitude of the operating area one degree  *)
(* of longitude is about 3/5 of a degree of latitude, so one x unit is     *)
(* 3 * res / 10 and one y unit is res / 2 thousandths of a nautical mile.  *)
(* Distances are thousandths of a nautical mile, speeds thousandths of a   *)
(* knot, times 1e-4 hours, bearings tenths of a degree.                    *)
(***************************************************************************)
EXTENDS Integers, Sequences, FiniteSets, TLC

\* ------------------------------------------------------------------ bounds
\* The sampling loop stops accepting candidates at this many samples.
MaxSamples == 3
\* A grid handed to the optimizer directly has at most this many points.
MaxGridLen == 2
\* Wind speeds handed to a function called on its own go up to this, in m/s.
MaxWindSpeed == 18

\* ------------------------------------------------- constants of the program
max_attempts == 30
max_retries == 5
retry_delay == 5
max_connection_distance == 5000
start_end_tolerance == 100
heuristic_speed == 6000
default_wind_speed == 5
default_wind_direction == 270
max_wind_factor == 15
TimeScale == 10 * 1000
Inf == 2000000000
None == 0

Pt(px, py) == [x |-> px, y |-> py]

Abs(n) == IF n < 0 THEN 0 - n ELSE n
Sgn(n) == IF n < 0 THEN 0 - 1 ELSE IF n > 0 THEN 1 ELSE 0
Min2(a, b) == IF a < b THEN a ELSE b
Max2(a, b) == IF a < b THEN b ELSE a

RECURSIVE SqrtIter(_, _, _)
SqrtIter(n, lo, hi) ==
  IF lo >= hi THEN lo
  ELSE LET mid == (lo + hi + 1) \div 2
       IN IF mid * mid <= n THEN SqrtIter(n, mid, hi) ELSE SqrtIter(n, lo, mid - 1)

\* floor of the square root
ISqrt(n) == SqrtIter(n, 0, 46340)

RECURSIVE SeqSum(_)
SeqSum(s) == IF s = <<>> THEN 0 ELSE Head(s) + SeqSum(Tail(s))

Range(s) == {s[i] : i \in 1..Len(s)}

\* --------------------------------------------------------------- geodesy
\* thousandths of a nautical mile per coordinate unit
XStep(res) == (3 * res) \div 10
YStep(res) == res \div 2

\* squared distance in (nm/1000)^2; the planar form of both the haversine
\* distance of utils/calculations.py and the geodesic distance of the sampler
DistSq(res, p, q) ==
  (XStep(res) * (p.x - q.x)) * (XStep(res) * (p.x - q.x))
  + (YStep(res) * (p.y - q.y)) * (YStep(res) * (p.y - q.y))

calculate_distance(res, p, q) == ISqrt(DistSq(res, p, q))

distance_nm(res, p, q) == ISqrt(DistSq(res, p, q))

\* tan(k degrees) * 10000, k = 0..45
TanDeg ==
  << 0, 175, 349, 524, 699, 875, 1051, 1228, 1405, 1584, 1763, 1944, 2126,
     2309, 2493, 2679, 2867, 3057, 3249, 3443, 3640, 3839, 4040, 4245, 4452,
     4663, 4877, 5095, 5317, 5543, 5774, 6009, 6249, 6494, 6745, 7002, 7265,
     7536, 7813, 8098, 8391, 8693, 9004, 9325, 9657, 10000 >>

\* atan2(east, north) in tenths of a degree for 0 <= east <= north, north > 0:
\* the table, interpolated linearly inside a degree
AtanLow(east, north) ==
  LET k == Cardinality({j \in 1..45 : TanDeg[j + 1] * north <= 10000 * east})
  IN IF k = 45 THEN 450
     ELSE 10 * k
          + (10 * (10000 * east - TanDeg[k + 1] * north))
              \div ((TanDeg[k + 2] - TanDeg[k + 1]) * north)

\* atan2(east, north) in tenths of a degree, for east >= 0 and north >= 0
AtanDeg(east, north) ==
  IF east <= north THEN AtanLow(east, north) ELSE 900 - AtanLow(north, east)

\* initial bearing from p to q, clockwise from north, in tenths of a degree
calculate_bearing(p, q) ==
  LET east == 3 * (q.x - p.x)
      north == 5 * (q.y - p.y)
      a == AtanDeg(Abs(east), Abs(north))
  IN IF east = 0 /\ north = 0 THEN 0
     ELSE IF east >= 0 /\ north >= 0 THEN a
     ELSE IF east >= 0 THEN 1800 - a
     ELSE IF north < 0 THEN 1800 + a
     ELSE (3600 - a) % 3600

\* ------------------------------------------------------ planar geometry
Orient(p, q, r) == Sgn((q.x - p.x) * (r.y - p.y) - (q.y - p.y) * (r.x - p.x))

InBox(p, q, r) ==
  /\ Min2(p.x, q.x) <= r.x /\ r.x <= Max2(p.x, q.x)
  /\ Min2(p.y, q.y) <= r.y /\ r.y <= Max2(p.y, q.y)

\* the closed segments p1-q1 and p2-q2 have a common point
SegmentsIntersect(p1, q1, p2, q2) ==
  LET o1 == Orient(p1, q1, p2)
      o2 == Orient(p1, q1, q2)
      o3 == Orient(p2, q2, p1)
      o4 == Orient(p2, q2, q1)
  IN \/ (o1 # o2 /\ o3 # o4)
     \/ (o1 = 0 /\ InBox(p1, q1, p2))
     \/ (o2 = 0 /\ InBox(p1, q1, q2))
     \/ (o3 = 0 /\ InBox(p2, q2, p1))
     \/ (o4 = 0 /\ InBox(p2, q2, q1))

\* An obstacle polygon is an axis-parallel rectangle x1..x2 by y1..y2.
InPolygon(p, g) == g.x1 <= p.x /\ p.x <= g.x2 /\ g.y1 <= p.y /\ p.y <= g.y2

\* shapely: LineString([a, b]).intersects(polygon)
LineIntersects(a, b, g) ==
  \/ InPolygon(a, g)
  \/ InPolygon(b, g)
  \/ SegmentsIntersect(a, b, Pt(g.x1, g.y1), Pt(g.x2, g.y1))
  \/ SegmentsIntersect(a, b, Pt(g.x2, g.y1), Pt(g.x2, g.y2))
  \/ SegmentsIntersect(a, b, Pt(g.x2, g.y2), Pt(g.x1, g.y2))
  \/ SegmentsIntersect(a, b, Pt(g.x1, g.y2), Pt(g.x1, g.y1))

\* squared distance from p to the segment a-b, times Len2 == |b - a|^2 (or
\* times 1 when a = b), in coordinate units
SegLen2(a, b) ==
  LET l == (b.x - a.x) * (b.x - a.x) + (b.y - a.y) * (b.y - a.y)
  IN IF l = 0 THEN 1 ELSE l

SegDistSqTimesLen2(p, a, b) ==
  LET l == (b.x - a.x) * (b.x - a.x) + (b.y - a.y) * (b.y - a.y)
      dot == (p.x - a.x) * (b.x - a.x) + (p.y - a.y) * (b.y - a.y)
      pa == (p.x - a.x) * (p.x - a.x) + (p.y - a.y) * (p.y - a.y)
      pb == (p.x - b.x) * (p.x - b.x) + (p.y - b.y) * (p.y - b.y)
  IN IF l = 0 THEN pa
     ELSE IF dot <= 0 THEN pa * l
     ELSE IF dot >= l THEN pb * l
     ELSE pa * l - dot * dot

\* ------------------------------------------------------------- inputs
\* Scene A: grid_resolution_nm = 2.0 near (18.37 E, 53.13 N); scene B:
\* grid_resolution_nm = 0.1 near (18.67 E, 53.10 N).  At this latitude a
\* step of longitude is 3/5 of a step of latitude.  Both origins sit next to
\* a border of the sampler's spatial grid cells.
OriginA == Pt(1102, 3188)
OriginB == Pt(22400, 63724)

Off(o, dx, dy) == Pt(o.x + dx, o.y + dy)

Req(o, ex, ey, r, m) ==
  [start |-> o, end |-> Off(o, ex, ey), res |-> r, margin |-> m]

Requests ==
  {Req(OriginA, d[1], d[2], 2000, d[3]) :
     d \in {<<0, 0, 2000>>, <<2, 0, 2000>>, <<4, 0, 2000>>, <<4, 0, 4000>>,
            <<4, 4, 2000>>}}

\* obstacle.geom is a shapely geometry ("shape"), a WKB element whose bytes
\* load ("wkb") or a WKB element whose bytes do not load ("corrupt")
Obs(o, ax, ay, bx, by, k) ==
  [geom |-> [x1 |-> o.x + ax, y1 |-> o.y + ay, x2 |-> o.x + bx, y2 |-> o.y + by],
   kind |-> k]

ObstacleLists(o) ==
  { <<>>,
    <<Obs(o, 1, 0 - 1, 3, 1, "shape")>>,
    <<Obs(o, 1, 1, 3, 3, "shape")>>,
    <<Obs(o, 0 - 1, 0 - 1, 7, 1, "shape")>>,
    <<Obs(o, 0 - 30, 0 - 30, 30, 30, "shape")>>,
    <<Obs(o, 1, 0 - 1, 3, 1, "wkb")>>,
    <<Obs(o, 1, 1, 3, 3, "shape"), Obs(o, 1, 0 - 1, 3, 1, "corrupt")>> }

WPoint(o, dx, dy, s, d) ==
  [lat |-> o.y + dy, lon |-> o.x + dx, wind |-> [speed |-> s, direction |-> d]]

WeatherFields(o) ==
  { <<WPoint(o, 0, 0, 5, 270)>>,
    <<WPoint(o, 0, 0, 15, 0)>>,
    <<WPoint(o, 0, 0, 15, 45), WPoint(o, 4, 4, 5, 180)>> }

\* Scene B is a channel: two obstacles leave the row of the start point
\* free, a third one (in the second list) covers start and end.
ChannelRequests ==
  {Req(OriginB, d[1], d[2], 100, 500) : d \in {<<2, 0>>, <<6, 0>>}}

ChannelObstacleLists(o) ==
  { <<Obs(o, 0 - 30, 1, 30, 30, "shape"), Obs(o, 0 - 30, 0 - 30, 30, 0 - 1, "shape")>>,
    <<Obs(o, 0 - 30, 1, 30, 30, "shape"), Obs(o, 0 - 30, 0 - 30, 30, 0 - 1, "shape"),
      Obs(o, 0 - 1, 0 - 1, 7, 1, "shape")>> }

ChannelWeatherFields(o) == { <<WPoint(o, 0, 0, 5, 270)>> }

\* Scene C: a wide corridor in open water under a wind of 15 m/s.
OpenWaterRequests == {Req(OriginA, 4, 4, 2000, 4000)}
OpenWaterObstacleLists(o) == { <<>> }
OpenWaterWeatherFields(o) == { <<WPoint(o, 0, 0, 15, 0)>> }

\* Scene D: a strip along a short leg to the north, a quarter of the
\* resolution wide on either side.
StripRequests == {Req(OriginA, 0, 2, 2000, 500)}
StripObstacleLists(o) == { <<>> }
StripWeatherFields(o) == { <<WPoint(o, 0, 0, 5, 270)>> }

\* -------------------------------------------------------------- state
VARIABLES
  request,        \* RouteRequestSchema: start, end, grid_resolution_nm, corridor_margin_nm
  obstacles,      \* obstacle_crud.get_obstacles_in_area(...)
  weather_data,   \* WeatherData.weather_points
  pc,             \* position in RouteService.calculate_route
  samples,        \* PoissonDiskSampler.samples
  active_list,    \* PoissonDiskSampler.active_list
  grid,           \* PoissonDiskSampler.grid: cell -> sample
  grid_points,    \* the list returned by generate_route_grid
  extended_grid,  \* find_optimal_route: the grid with start and end added
  graph,          \* RouteOptimizer.graph after build_graph
  path_nodes,     \* the node path of nx.astar_path, empty on the fallback
  route_points,   \* the route returned by find_optimal_route
  total_time,     \* the time returned by find_optimal_route
  total_distance, \* RouteService._calculate_total_distance(route_points)
  raised,         \* the exception raised first while the request was handled
  route_id,       \* calculate_route: route_id = uuid4()
  saved_route,    \* the id of the row written by route_crud.create_route
  response,       \* the RouteResponseSchema returned by calculate_route
  deadline_passed, \* time.time() - start_time > request.max_calculation_time
  previous_route, \* the route returned to the same request the time before
  api_key,        \* WeatherService.api_key
  session,        \* WeatherService.session
  bounds,         \* the argument of WeatherService.get_weather_data
  results,        \* get_weather_data: the results gathered so far
  weather_points, \* the weather_points of the WeatherData returned
  weather_pc,     \* position in WeatherService.get_weather_data
  call,           \* the function called last on its own
  args,           \* the arguments of that call
  result,         \* what that call returned
  gpx,            \* what export_route_to_gpx returned, when it was called
  lifespan_pc,    \* position in lifespan and in the init_db it awaits
  attempt,        \* init_db: the loop variable
  events,         \* init_db: the attempts and the sleeps so far, in order
  startup_error   \* lifespan: the exception of init_db that it caught

sampler_vars == <<samples, active_list, grid>>
route_vars == <<extended_grid, graph, path_nodes, route_points, total_time>>

answer_vars == <<raised, route_id, saved_route, response>>
handler_vars == <<answer_vars, deadline_passed, previous_route>>

weather_vars == <<api_key, session, bounds, results, weather_points, weather_pc>>

call_vars == <<call, args, result>>

planner_vars == <<request, obstacles, weather_data, pc, samples, active_list, grid,
                  grid_points, extended_grid, graph, path_nodes, route_points,
                  total_time, total_distance, handler_vars>>

\* what the planner leaves alone, and what the wind provider leaves alone
startup_vars == <<lifespan_pc, attempt, events, startup_error>>

beside_planner == <<weather_vars, call_vars, gpx, startup_vars>>
beside_weather == <<planner_vars, call_vars, gpx, startup_vars>>

vars == <<planner_vars, weather_vars, call_vars, gpx, startup_vars>>

\* ------------------------------------------------------ corridor sampler
\* corridor_margin_nm / 60 degrees, in halves of a coordinate unit
margin_degrees(req) == (4 * req.margin) \div req.res

\* LineString([start, end]).buffer(margin_degrees) contains p
create_corridor(req, p) ==
  4 * SegDistSqTimesLen2(p, req.start, req.end)
    < margin_degrees(req) * margin_degrees(req) * SegLen2(req.start, req.end)

\* the buffer minus the obstacles is the empty polygon (an obstacle covers
\* the bounding box of the buffer; no two obstacles of ObstacleLists cover
\* it together without one of them covering it alone)
boundary_empty(req, obs) ==
  \E i \in 1..Len(obs) :
    /\ 2 * obs[i].geom.x1 <= 2 * Min2(req.start.x, req.end.x) - margin_degrees(req)
    /\ 2 * obs[i].geom.x2 >= 2 * Max2(req.start.x, req.end.x) + margin_degrees(req)
    /\ 2 * obs[i].geom.y1 <= 2 * Min2(req.start.y, req.end.y) - margin_degrees(req)
    /\ 2 * obs[i].geom.y2 >= 2 * Max2(req.start.y, req.end.y) + margin_degrees(req)

\* boundary.contains(p), boundary == buffer minus every obstacle.geom
create_boundary(req, obs, p) ==
  /\ create_corridor(req, p)
  /\ \A i \in 1..Len(obs) : ~InPolygon(p, obs[i].geom)

\* corridor.contains(p) in generate_grid: an empty boundary is falsy, and
\* the corridor then stays the whole buffer
corridor_contains(req, obs, p) ==
  /\ create_corridor(req, p)
  /\ (boundary_empty(req, obs) \/ create_boundary(req, obs, p))

\* int(coordinate / cell_size): cell_size is min_distance_nm / sqrt(2), a
\* number of nautical miles, and divides a coordinate in degrees
cell_index(v) == (v * 14142) \div 1200000

cell_key(p) == <<cell_index(p.x), cell_index(p.y)>>

grid_put(g, key, p) ==
  [k \in DOMAIN g \cup {key} |-> IF k = key THEN p ELSE g[k]]

add_sample(st, point) ==
  [samples |-> Append(st.samples, point),
   active_list |-> Append(st.active_list, point),
   grid |-> grid_put(st.grid, cell_key(point), point)]

\* the points of the annulus [min_dist, 2 * min_dist] (degrees) around center
generate_candidate(center) ==
  {Pt(center.x + dx, center.y + dy) :
     <<dx, dy>> \in {d \in {0 - 4, 0 - 2, 0, 2, 4} \X {0 - 4, 0 - 2, 0, 2, 4} :
                       4 <= d[1] * d[1] + d[2] * d[2] /\ d[1] * d[1] + d[2] * d[2] <= 16}}

is_valid_candidate(res, g, candidate) ==
  \A dx \in {0 - 1, 0, 1}, dy \in {0 - 1, 0, 1} :
    LET key == <<cell_index(candidate.x) + dx, cell_index(candidate.y) + dy>>
    IN key \in DOMAIN g => ~(DistSq(res, candidate, g[key]) < res * res)

RemoveAt(s, i) == [j \in 1..(Len(s) - 1) |-> IF j < i THEN s[j] ELSE s[j + 1]]

\* the tail of generate_grid: the end point joins the samples unless some
\* sample is closer to it than min_distance_nm
append_end(req, smp) ==
  IF \E i \in 1..Len(smp) : DistSq(req.res, req.end, smp[i]) < req.res * req.res
  THEN smp ELSE Append(smp, req.end)

mid_point(req) ==
  Pt((req.start.x + req.end.x) \div 2, (req.start.y + req.end.y) \div 2)

add_strategic_points(req, existing_points) ==
  IF \E i \in 1..Len(existing_points) :
       DistSq(req.res, mid_point(req), existing_points[i]) < req.res * req.res
  THEN <<>> ELSE <<mid_point(req)>>

\* ------------------------------------------------------------ wind field
\* faulty variant: on a tie the last of the nearest weather points wins (a
\* comparison with <= in place of <)
get_wind_at_point_last_nearest(res, wps, point) ==
  IF wps = <<>>
  THEN [speed |-> default_wind_speed, direction |-> default_wind_direction]
  ELSE LET d(i) == DistSq(res, point, Pt(wps[i].lon, wps[i].lat))
           last == CHOOSE i \in 1..Len(wps) :
                     /\ \A j \in 1..Len(wps) : d(i) <= d(j)
                     /\ \A j \in (i + 1)..Len(wps) : d(i) < d(j)
       IN wps[last].wind

\* WeatherData.get_wind_at_point: the wind of the nearest weather point,
\* the first of them on a tie, the default wind on an empty field
RECURSIVE nearest_weather_point(_, _, _, _, _)
nearest_weather_point(res, wps, point, i, best) ==
  IF i > Len(wps) THEN best
  ELSE IF best = None
          \/ DistSq(res, point, Pt(wps[i].lon, wps[i].lat))
               < DistSq(res, point, Pt(wps[best].lon, wps[best].lat))
       THEN nearest_weather_point(res, wps, point, i + 1, i)
       ELSE nearest_weather_point(res, wps, point, i + 1, best)

get_wind_at_point(res, wps, point) ==
  IF wps = <<>>
  THEN [speed |-> default_wind_speed, direction |-> default_wind_direction]
  ELSE wps[nearest_weather_point(res, wps, point, 1, None)].wind

\* ----------------------------------------------------------- polar model
\* DEFAULT_POLAR
\* true wind angles in tenths of a degree, boat speeds in knots / 1000
twa_values == <<0, 300, 450, 600, 900, 1200, 1500, 1800>>
speed_values == <<0, 2000, 4000, 5500, 6000, 5800, 5000, 4500>>

\* np.interp(twa, twa_values, speed_values) for twa strictly inside the table
interp(twa) ==
  LET i == CHOOSE k \in 1..(Len(twa_values) - 1) :
             twa_values[k] <= twa /\ twa < twa_values[k + 1]
  IN speed_values[i]
     + ((speed_values[i + 1] - speed_values[i]) * (twa - twa_values[i]))
         \div (twa_values[i + 1] - twa_values[i])

\* faulty variant: an angle above 180 degrees is not folded back
get_speed_unfolded(twa_in, wind_speed) ==
  LET twa == Abs(twa_in) % 3600
      base_speed == IF twa <= twa_values[1] THEN speed_values[1]
                    ELSE IF twa >= twa_values[Len(twa_values)]
                         THEN speed_values[Len(speed_values)]
                         ELSE interp(twa)
      wind_factor == Min2(wind_speed, max_wind_factor)
  IN (base_speed * wind_factor) \div 10

\* SailingPolar.get_speed; twa in tenths of a degree, wind_speed in m/s, the
\* result in knots / 1000
get_speed(twa_in, wind_speed) ==
  LET t == Abs(twa_in) % 3600
      twa == IF t > 1800 THEN 3600 - t ELSE t
      base_speed == IF twa <= twa_values[1] THEN speed_values[1]
                    ELSE IF twa >= twa_values[Len(twa_values)]
                         THEN speed_values[Len(speed_values)]
                         ELSE interp(twa)
      wind_factor == Min2(wind_speed, max_wind_factor)
  IN (base_speed * wind_factor) \div 10

\* ---------------------------------------------------------- graph builder
\* RouteOptimizer._calculate_travel_time, in 1e-4 hours
calculate_travel_time(res, start, end, wps) ==
  LET wind_data == get_wind_at_point(res, wps, start)
      bearing == calculate_bearing(start, end)
      dist == calculate_distance(res, start, end)
      twa == Abs(bearing - 10 * wind_data.direction)
      boat_speed == get_speed(twa, wind_data.speed)
  IN IF boat_speed > 0 THEN (dist * TimeScale) \div boat_speed ELSE Inf

\* faulty variant: only a segment that crosses the outline of an obstacle is
\* refused, a segment that stays inside it is not
can_connect_crossing_only(point1, point2, obs) ==
  \A i \in 1..Len(obs) :
    \/ obs[i].kind = "corrupt"
    \/ ~LineIntersects(point1, point2, obs[i].geom)
    \/ (InPolygon(point1, obs[i].geom) /\ InPolygon(point2, obs[i].geom))

\* RouteOptimizer._can_connect: an obstacle whose geometry fails to load is
\* skipped by the except branch
can_connect(point1, point2, obs) ==
  \A i \in 1..Len(obs) :
    obs[i].kind = "corrupt" \/ ~LineIntersects(point1, point2, obs[i].geom)

\* RouteOptimizer.build_graph: nodes 1..Len(pts); an edge <<i, j>>, i < j,
\* carries its distance and its time
build_graph(res, pts, obs, wps) ==
  LET pairs == {e \in (1..Len(pts)) \X (1..Len(pts)) :
                  /\ e[1] < e[2]
                  /\ DistSq(res, pts[e[1]], pts[e[2]])
                       <= max_connection_distance * max_connection_distance
                  /\ can_connect(pts[e[1]], pts[e[2]], obs)}
  IN [e \in pairs |->
        [distance |-> calculate_distance(res, pts[e[1]], pts[e[2]]),
         time |-> calculate_travel_time(res, pts[e[1]], pts[e[2]], wps)]]

EdgeKey(u, v) == IF u < v THEN <<u, v>> ELSE <<v, u>>
has_edge(G, u, v) == EdgeKey(u, v) \in DOMAIN G

\* float addition with infinity
Plus(a, b) == IF a >= Inf \/ b >= Inf THEN Inf ELSE a + b

\* ------------------------------------------------------------- A* search
\* RouteOptimizer._find_nearest_node: the first node at the least distance
RECURSIVE find_nearest_node_from(_, _, _, _, _)
find_nearest_node_from(res, point, pts, i, nearest) ==
  IF i > Len(pts) THEN nearest
  ELSE IF DistSq(res, point, pts[i]) < DistSq(res, point, pts[nearest])
       THEN find_nearest_node_from(res, point, pts, i + 1, i)
       ELSE find_nearest_node_from(res, point, pts, i + 1, nearest)

find_nearest_node(res, point, pts) == find_nearest_node_from(res, point, pts, 2, 1)

\* RouteOptimizer._heuristic_function, in 1e-4 hours
heuristic_function(res, node1, node2, pts) ==
  (calculate_distance(res, pts[node1], pts[node2]) * TimeScale) \div heuristic_speed

\* the neighbours of u in the order networkx keeps them (ascending, as
\* build_graph inserts the edges in ascending order of both ends)
RECURSIVE neighbors_from(_, _, _, _)
neighbors_from(G, n, u, v) ==
  IF v > n THEN <<>>
  ELSE IF v # u /\ has_edge(G, u, v) THEN <<v>> \o neighbors_from(G, n, u, v + 1)
       ELSE neighbors_from(G, n, u, v + 1)

fn_put(f, k, v) == [x \in DOMAIN f \cup {k} |-> IF x = k THEN v ELSE f[x]]

\* the for loop of networkx.astar_path over the neighbours of curnode
RECURSIVE astar_relax(_, _, _, _, _, _, _, _)
astar_relax(G, res, pts, target, st, curnode, dist, nbrs) ==
  IF nbrs = <<>> THEN st
  ELSE LET neighbor == Head(nbrs)
           ncost == Plus(dist, G[EdgeKey(curnode, neighbor)].time)
           seen == neighbor \in DOMAIN st.enqueued
       IN IF seen /\ st.enqueued[neighbor].qcost <= ncost
          THEN astar_relax(G, res, pts, target, st, curnode, dist, Tail(nbrs))
          ELSE LET h == IF seen THEN st.enqueued[neighbor].h
                        ELSE heuristic_function(res, neighbor, target, pts)
                   st2 == [st EXCEPT
                             !.enqueued = fn_put(@, neighbor, [qcost |-> ncost, h |-> h]),
                             !.queue = @ \cup {[priority |-> Plus(ncost, h),
                                                count |-> st.c,
                                                node |-> neighbor,
                                                dist |-> ncost,
                                                parent |-> curnode]},
                             !.c = @ + 1]
               IN astar_relax(G, res, pts, target, st2, curnode, dist, Tail(nbrs))

\* the while loop that walks back along the parents
RECURSIVE walk_parents(_, _, _)
walk_parents(explored, node, path) ==
  IF node = None THEN path
  ELSE walk_parents(explored, explored[node], <<node>> \o path)

\* faulty variant: the walk back along the parents starts one node too far
astar_build_path_skips_parent(explored, node, path) ==
  IF node = None THEN path ELSE walk_parents(explored, explored[node], path)

\* the path rebuilt from the target's parent back to the source
astar_build_path(explored, node, path) == walk_parents(explored, node, path)

\* the while loop of networkx.astar_path
RECURSIVE astar_loop(_, _, _, _, _)
astar_loop(G, res, pts, target, st) ==
  IF st.queue = {} THEN [found |-> FALSE, path |-> <<>>]
  ELSE
    LET item == CHOOSE q \in st.queue :
                  \A r \in st.queue :
                    \/ q.priority < r.priority
                    \/ (q.priority = r.priority /\ q.count <= r.count)
        rest == [st EXCEPT !.queue = @ \ {item}]
    IN IF item.node = target
       THEN [found |-> TRUE,
             path |-> astar_build_path(st.explored, item.parent, <<item.node>>)]
       ELSE IF /\ item.node \in DOMAIN st.explored
               /\ \/ st.explored[item.node] = None
                  \/ st.enqueued[item.node].qcost < item.dist
            THEN astar_loop(G, res, pts, target, rest)
            ELSE astar_loop(G, res, pts, target,
                   astar_relax(G, res, pts, target,
                     [rest EXCEPT !.explored = fn_put(@, item.node, item.parent)],
                     item.node, item.dist,
                     neighbors_from(G, Len(pts), item.node, 1)))

\* networkx.astar_path(graph, source, target, heuristic, weight='time')
astar_path(G, res, pts, source, target) ==
  astar_loop(G, res, pts, target,
    [queue |-> {[priority |-> 0, count |-> 0, node |-> source, dist |-> 0,
                 parent |-> None]},
     enqueued |-> <<>>,
     explored |-> <<>>,
     c |-> 1])

\* the time of the path, leg by leg, as find_optimal_route adds it up
\* total_time += edge_data['time'], over floats
RECURSIVE sum_times(_)
sum_times(s) == IF s = <<>> THEN 0 ELSE Plus(Head(s), sum_times(Tail(s)))

\* graph.get_edge_data(u, v)['time'], nothing added when there is no edge
edge_time(G, u, v) == IF has_edge(G, u, v) THEN G[EdgeKey(u, v)].time ELSE 0

\* faulty variant: the loop over the legs stops one leg early
path_time_misses_last_leg(G, path) ==
  sum_times([i \in 1..(Len(path) - 2) |-> edge_time(G, path[i], path[i + 1])])

path_time(G, path) ==
  sum_times([i \in 1..(Len(path) - 1) |-> edge_time(G, path[i], path[i + 1])])

\* start and end join the grid unless a grid point is within 0.1 nm
extend_grid(res, start, end, pts) ==
  LET start_in_grid == \E i \in 1..Len(pts) :
                         DistSq(res, start, pts[i]) < start_end_tolerance * start_end_tolerance
      end_in_grid == \E i \in 1..Len(pts) :
                       DistSq(res, end, pts[i]) < start_end_tolerance * start_end_tolerance
  IN (IF start_in_grid THEN <<>> ELSE <<start>>) \o pts
       \o (IF end_in_grid THEN <<>> ELSE <<end>>)

\* faulty variant: the direct leg is timed from the end point back to the start point
fallback_route_reversed(res, start, end, wps) ==
  [route_points |-> <<start, end>>,
   total_time |-> calculate_travel_time(res, end, start, wps)]

\* the except branches of find_optimal_route: the straight line
fallback_route(res, start, end, wps) ==
  [route_points |-> <<start, end>>,
   total_time |-> calculate_travel_time(res, start, end, wps)]

\* RouteOptimizer.find_optimal_route
find_optimal_route(res, start, end, pts, obs, wps) ==
  LET ext == extend_grid(res, start, end, pts)
      G == build_graph(res, ext, obs, wps)
      start_node == find_nearest_node(res, start, ext)
      end_node == find_nearest_node(res, end, ext)
      found == astar_path(G, res, ext, start_node, end_node)
  IN IF found.found
     THEN [extended_grid |-> ext, graph |-> G, path_nodes |-> found.path,
           route_points |-> [i \in 1..Len(found.path) |-> ext[found.path[i]]],
           total_time |-> path_time(G, found.path)]
     ELSE [extended_grid |-> ext, graph |-> G, path_nodes |-> <<>>,
           route_points |-> fallback_route(res, start, end, wps).route_points,
           total_time |-> fallback_route(res, start, end, wps).total_time]

\* RouteService._calculate_total_distance
RECURSIVE calculate_total_distance(_, _)
calculate_total_distance(res, pts) ==
  IF Len(pts) < 2 THEN 0
  ELSE calculate_distance(res, pts[1], pts[2]) + calculate_total_distance(res, Tail(pts))

\* ------------------------------------------------------- wind provider
\* WeatherService.  Latitudes and longitudes are counted in units of 0.005
\* degree and the bounds handed in are multiples of 0.01 degree, so that
\* half a side of the bounds is a whole number.  Wind speeds are tenths of
\* a metre per second, directions degrees.  A bounds argument is a dict
\* with some of the keys north, south, east, west, or not a dict at all
\* (is_dict = FALSE).
weather_grid_size == 3

has_keys(b) == {"north", "south", "east", "west"} \subseteq DOMAIN b

\* the point that replaces the grid when bounds lacks a key: (54.52, 18.55)
fallback_point == [lat |-> 10904, lon |-> 3710]

\* WeatherService._create_weather_grid: the 3x3 grid, row by row; a KeyError
\* is answered with the one fallback point, any other exception is raised
create_weather_grid(b) ==
  IF ~b.is_dict THEN [raised |-> TRUE, points |-> <<>>]
  ELSE IF ~has_keys(b) THEN [raised |-> FALSE, points |-> <<fallback_point>>]
  ELSE [raised |-> FALSE,
        points |->
          [k \in 1..(weather_grid_size * weather_grid_size) |->
             [lat |-> b.south + ((k - 1) \div weather_grid_size)
                                  * ((b.north - b.south) \div 2),
              lon |-> b.west + ((k - 1) % weather_grid_size)
                                 * ((b.east - b.west) \div 2)]]]

\* WeatherService._parse_weather_data: wind.speed and wind.deg of the
\* answer, 5.0 and 270.0 for a key that is missing
parse_weather_data(data, lat, lon) ==
  [lat |-> lat, lon |-> lon,
   wind |-> [speed |-> IF "speed" \in DOMAIN data.wind THEN data.wind.speed
                       ELSE 10 * default_wind_speed,
             direction |-> IF "deg" \in DOMAIN data.wind THEN data.wind.deg
                           ELSE default_wind_direction]]

\* what the weather API answers to one request: a failure (status other than
\* 200, timeout, connection error) or a document with wind data
ApiAnswers ==
  {[ok |-> FALSE],
   [ok |-> TRUE, wind |-> [speed |-> 80, deg |-> 90]],
   [ok |-> TRUE, wind |-> [speed |-> 120]]}

\* WeatherService._fetch_weather_point as gathered with
\* return_exceptions=True: a WeatherPoint or an exception
fetch_weather_point(sess, answer, lat, lon) ==
  IF sess \in {"none", "closed"} \/ ~answer.ok
  THEN [exception |-> TRUE]
  ELSE [exception |-> FALSE, point |-> parse_weather_data(answer, lat, lon)]

\* faulty variant: every point of the default field gets the same wind
default_weather_point_uniform(b, i, j) ==
  [lat |-> b.south + i * ((b.north - b.south) \div 2),
   lon |-> b.west + j * ((b.east - b.west) \div 2),
   wind |-> [speed |-> 10 * default_wind_speed,
             direction |-> default_wind_direction]]

\* the body of the double loop of _create_default_weather_data
default_weather_point(b, i, j) ==
  [lat |-> b.south + i * ((b.north - b.south) \div 2),
   lon |-> b.west + j * ((b.east - b.west) \div 2),
   wind |-> [speed |-> 10 * default_wind_speed + (i + j) * 5,
             direction |-> (default_wind_direction + (i - j) * 10) % 360]]

\* the except branch of _create_default_weather_data
default_fallback_point ==
  [lat |-> fallback_point.lat, lon |-> fallback_point.lon,
   wind |-> [speed |-> 10 * default_wind_speed,
             direction |-> default_wind_direction]]

\* faulty variant: the exception of the try block is not caught
create_default_weather_data_uncaught(b) ==
  IF b.is_dict /\ has_keys(b)
  THEN [raised |-> FALSE,
        weather_points |->
          [k \in 1..(weather_grid_size * weather_grid_size) |->
             default_weather_point(b, (k - 1) \div weather_grid_size,
                                   (k - 1) % weather_grid_size)]]
  ELSE [raised |-> TRUE, weather_points |-> <<>>]

\* WeatherService._create_default_weather_data
create_default_weather_data(b) ==
  IF b.is_dict /\ has_keys(b)
  THEN [raised |-> FALSE,
        weather_points |->
          [k \in 1..(weather_grid_size * weather_grid_size) |->
             default_weather_point(b, (k - 1) \div weather_grid_size,
                                   (k - 1) % weather_grid_size)]]
  ELSE [raised |-> FALSE, weather_points |-> <<default_fallback_point>>]

\* the WeatherPoints among the gathered results, in order
RECURSIVE fetched_points(_)
fetched_points(rs) ==
  IF rs = <<>> THEN <<>>
  ELSE IF Head(rs).exception THEN fetched_points(Tail(rs))
  ELSE <<Head(rs).point>> \o fetched_points(Tail(rs))

Dict(n, s, e, w) == [is_dict |-> TRUE, north |-> n, south |-> s, east |-> e, west |-> w]

\* the bay, the bounds of a short route, a dict without east and west, an
\* empty dict, and None
BoundsArguments ==
  {Dict(10960, 10860, 3800, 3660), Dict(10680, 10600, 3720, 3640),
   [is_dict |-> TRUE, north |-> 10960, south |-> 10860],
   [is_dict |-> TRUE], [is_dict |-> FALSE]}

InitWeatherService ==
  /\ api_key = ""
  /\ session = "none"
  /\ bounds = [is_dict |-> TRUE]
  /\ results = <<>>
  /\ weather_points = <<>>
  /\ weather_pc = "idle"

\* no function has been called on its own
InitCalls ==
  /\ gpx = <<>>
  /\ lifespan_pc = "init_db"
  /\ attempt = 0
  /\ events = <<>>
  /\ startup_error = ""
  /\ call = ""
  /\ args = <<>>
  /\ result = <<>>

\* -------------------------------------------------------- HTTP handler
\* dependencies.validate_coordinates: the latitude p.y * res / 120000 lies
\* in [-90, 90] and the longitude p.x * res / 120000 in [-180, 180]
validate_coordinates(res, p) ==
  /\ Abs(p.y) * res <= 90 * 120000
  /\ Abs(p.x) * res <= 180 * 120000

\* the except clause of RouteService.calculate_route: whatever is raised
\* inside its try block leaves the service as an HTTPException with status 500
service_except(exc) == [kind |-> "HTTPException", status_code |-> 500]

\* the except clauses of the handler of POST /routes/calculate, applied to
\* an exception raised inside its try block: the status of the answer
calculate_route_except(exc) ==
  IF exc.kind = "asyncio.TimeoutError" THEN 408
  ELSE IF exc.kind = "ValueError" THEN 400
  ELSE 500

\* the position of a request that was answered with an error status
answered(code) ==
  CASE code = 400 -> "http_400"
    [] code = 404 -> "http_404"
    [] code = 408 -> "http_408"
    [] OTHER -> "http_500"

\* the status of the answer; 201 is the status_code of the route decorator
status_code ==
  CASE pc = "done" -> 201
    [] pc = "http_400" -> 400
    [] pc = "http_404" -> 404
    [] pc = "http_408" -> 408
    [] pc = "http_500" -> 500
    [] OTHER -> None

\* an Optional field of a schema: Absent for None, Some(v) for the value v
Absent == <<>>
Some(v) == <<v>>

\* RouteService._create_waypoints
create_waypoints(res, pts, wps) ==
  [i \in 1..Len(pts) |->
     [sequence |-> i - 1,
      point |-> pts[i],
      bearing_to_next |->
        IF i < Len(pts) THEN Some(calculate_bearing(pts[i], pts[i + 1])) ELSE Absent,
      distance_to_next_nm |->
        IF i < Len(pts) THEN Some(calculate_distance(res, pts[i], pts[i + 1]))
        ELSE Absent,
      estimated_time_to_next_hours |-> Absent,
      wind_speed_ms |-> Some(get_wind_at_point(res, wps, pts[i]).speed),
      wind_direction_deg |-> Some(get_wind_at_point(res, wps, pts[i]).direction),
      boat_speed_kts |-> Absent]]

\* RouteService._convert_route_to_schema: the schema of a row of the table
\* routes
convert_route_to_schema(route) ==
  [id |-> route.id,
   waypoints |-> <<>>,
   distance_nm |-> route.distance_nm,
   estimated_time_hours |-> route.estimated_time_hours]

\* RouteService._generate_gpx_content: the trkseg elements of the one trk,
\* each the list of its trkpt elements
generate_gpx_content(route) ==
  [found |-> TRUE,
   trksegs |-> << [i \in 1..Len(route.waypoints) |->
                     [lat |-> route.waypoints[i].point.y,
                      lon |-> route.waypoints[i].point.x]] >>]

\* export_route_to_gpx when get_route finds no row: None
NoGpx == [found |-> FALSE, trksegs |-> <<>>]

\* uuid4() in calculate_route and the default of the column Route.id
Uuids == {"uuid_a", "uuid_b"}

NoRow == ""

\* faulty variant: the identifier is taken from the row although the save failed
returned_id_of_row(fresh, saved) == saved

\* the try block around route_crud.create_route: the id of the saved row
\* replaces the fresh id, a failed save leaves the fresh id
returned_id(fresh, saved) == IF saved # NoRow THEN saved ELSE fresh

NoResponse ==
  [id |-> "", waypoints |-> <<>>, distance_nm |-> 0, estimated_time_hours |-> 0]

InitHandler ==
  /\ raised = ""
  /\ route_id = ""
  /\ saved_route = NoRow
  /\ response = NoResponse
  /\ deadline_passed = FALSE
  /\ previous_route = <<>>

\* ------------------------------------------------------------ actions
Init ==
  /\ \/ /\ request \in Requests
        /\ obstacles \in ObstacleLists(request.start)
        /\ weather_data \in WeatherFields(request.start)
     \/ /\ request \in ChannelRequests
        /\ obstacles \in ChannelObstacleLists(request.start)
        /\ weather_data \in ChannelWeatherFields(request.start)
     \/ /\ request \in OpenWaterRequests
        /\ obstacles \in OpenWaterObstacleLists(request.start)
        /\ weather_data \in OpenWaterWeatherFields(request.start)
     \/ /\ request \in StripRequests
        /\ obstacles \in StripObstacleLists(request.start)
        /\ weather_data \in StripWeatherFields(request.start)
  /\ pc = "generate_route_grid"
  /\ samples = <<>>
  /\ active_list = <<>>
  /\ grid = <<>>
  /\ grid_points = <<>>
  /\ extended_grid = <<>>
  /\ graph = <<>>
  /\ path_nodes = <<>>
  /\ route_points = <<>>
  /\ total_time = 0
  /\ total_distance = 0
  /\ InitHandler
  /\ InitCalls
  /\ InitWeatherService

\* generate_route_grid up to the sampling loop: subtract the obstacles from
\* the boundary, reset the sampler, seed it with the start point
GenerateGridStart ==
  /\ pc = "generate_route_grid"
  /\ \A i \in 1..Len(obstacles) : obstacles[i].kind = "shape"
  /\ LET st == add_sample([samples |-> <<>>, active_list |-> <<>>, grid |-> <<>>],
                          request.start)
     IN /\ samples' = st.samples
        /\ active_list' = st.active_list
        /\ grid' = st.grid
  /\ pc' = "sampling"
  /\ UNCHANGED <<beside_planner, handler_vars, request, obstacles, weather_data, grid_points, route_vars,
                 total_distance>>

\* boundary.difference(obstacle.geom) raises on a geometry that is not a
\* shapely geometry; calculate_route turns the exception into HTTP 500
GenerateGridRaises ==
  /\ pc = "generate_route_grid"
  /\ \E i \in 1..Len(obstacles) : obstacles[i].kind # "shape"
  /\ raised' = "Exception"
  /\ pc' = answered(calculate_route_except(service_except([kind |-> "Exception"])))
  /\ UNCHANGED <<route_id, saved_route, response, deadline_passed, previous_route>>
  /\ UNCHANGED <<beside_planner, request, obstacles, weather_data, sampler_vars, grid_points,
                 route_vars, total_distance>>

\* one turn of the while loop in which some attempt yields a candidate that
\* lies in the corridor and is valid
SampleAccept ==
  /\ pc = "sampling"
  /\ Len(samples) < MaxSamples
  /\ \E idx \in 1..Len(active_list) :
       \E candidate \in generate_candidate(active_list[idx]) :
         /\ corridor_contains(request, obstacles, candidate)
         /\ is_valid_candidate(request.res, grid, candidate)
         /\ LET st == add_sample([samples |-> samples, active_list |-> active_list,
                                   grid |-> grid], candidate)
            IN /\ samples' = st.samples
               /\ active_list' = st.active_list
               /\ grid' = st.grid
  /\ UNCHANGED <<beside_planner, handler_vars, request, obstacles, weather_data, pc, grid_points, route_vars,
                 total_distance>>

\* one turn of the while loop in which all max_attempts candidates fail
SampleRetire ==
  /\ pc = "sampling"
  /\ max_attempts > 0
  /\ \E idx \in 1..Len(active_list) :
       /\ \E candidate \in generate_candidate(active_list[idx]) :
            ~(corridor_contains(request, obstacles, candidate)
              /\ is_valid_candidate(request.res, grid, candidate))
       /\ active_list' = RemoveAt(active_list, idx)
  /\ UNCHANGED <<beside_planner, handler_vars, request, obstacles, weather_data, pc, samples, grid, grid_points,
                 route_vars, total_distance>>

\* the active list is empty: generate_grid returns, and generate_route_grid
\* extends the samples with the strategic points
GenerateGridFinish ==
  /\ pc = "sampling"
  /\ active_list = <<>>
  /\ LET out == append_end(request, samples)
     IN /\ samples' = out \o add_strategic_points(request, out)
        /\ grid_points' = out \o add_strategic_points(request, out)
  /\ pc' = "find_optimal_route"
  /\ UNCHANGED <<beside_planner, handler_vars, request, obstacles, weather_data, active_list, grid, route_vars,
                 total_distance>>

\* optimizer.find_optimal_route(start, end, grid_points, obstacles, weather_data)
FindOptimalRoute ==
  /\ pc = "find_optimal_route"
  /\ LET r == find_optimal_route(request.res, request.start, request.end,
                                 grid_points, obstacles, weather_data)
     IN /\ extended_grid' = r.extended_grid
        /\ graph' = r.graph
        /\ path_nodes' = r.path_nodes
        /\ route_points' = r.route_points
        /\ total_time' = r.total_time
  /\ pc' = "route_found"
  /\ UNCHANGED <<beside_planner, handler_vars, request, obstacles, weather_data, sampler_vars, grid_points,
                 total_distance>>

\* calculate_route after the search.  A route without points raises
\* HTTPException(404) inside the try block.  Any other route gets its total
\* distance, its waypoints and a fresh id; create_route either saves a row
\* with an id of its own or raises; the response is returned.
BuildResponse ==
  /\ pc = "route_found"
  /\ IF route_points = <<>>
     THEN /\ raised' = "HTTPException_404"
          /\ pc' = answered(calculate_route_except(service_except(
                     [kind |-> "HTTPException", status_code |-> 404])))
          /\ UNCHANGED <<total_distance, route_id, saved_route, response>>
     ELSE /\ total_distance' = calculate_total_distance(request.res, route_points)
          /\ \E fresh \in Uuids, saved \in (Uuids \cup {NoRow}) :
               /\ saved # fresh
               /\ route_id' = fresh
               /\ saved_route' = saved
               /\ response' =
                    [id |-> returned_id(fresh, saved),
                     waypoints |-> create_waypoints(request.res, route_points,
                                                    weather_data),
                     distance_nm |-> total_distance',
                     estimated_time_hours |-> total_time]
          /\ pc' = "done"
          /\ UNCHANGED raised
  /\ UNCHANGED <<deadline_passed, previous_route>>
  /\ UNCHANGED <<beside_planner, request, obstacles, weather_data, sampler_vars, grid_points,
                 route_vars>>

\* the row of the table routes that create_route wrote
stored_route ==
  [id |-> saved_route, geometry |-> route_points, distance_nm |-> total_distance,
   estimated_time_hours |-> total_time]

\* RouteService.export_route_to_gpx(route_id) with the id of the response:
\* get_route finds the row when the route was saved, and the row is
\* converted to the schema from which the GPX document is written
ExportRouteToGpx ==
  /\ pc = "done"
  /\ gpx = <<>>
  /\ gpx' = IF response.id = saved_route
            THEN <<generate_gpx_content(convert_route_to_schema(stored_route))>>
            ELSE <<NoGpx>>
  /\ UNCHANGED <<planner_vars, weather_vars, call_vars, startup_vars>>

Next ==
  \/ GenerateGridStart
  \/ GenerateGridRaises
  \/ SampleAccept
  \/ SampleRetire
  \/ GenerateGridFinish
  \/ FindOptimalRoute
  \/ BuildResponse
  \/ ExportRouteToGpx

\* RouteService.calculate_route from the request to the response
Spec == Init /\ [][Next]_vars

\* ------------------------------------------------ POST /routes/calculate
\* The handler of POST /routes/calculate around RouteService.calculate_route.
\* One request has a start latitude of 91 degrees; the obstacles are the rows
\* of the obstacle table, whose geometries are WKB elements.
ApiRequests ==
  {Req(OriginA, 0, 0, 2000, 2000), Req(OriginA, 2, 0, 2000, 2000),
   Req(OriginA, 4, 4, 2000, 4000), Req(Pt(1102, 5460), 2, 0, 2000, 2000)}

ApiObstacleLists(o) == { <<>>, <<Obs(o, 1, 0 - 1, 3, 1, "wkb")>> }

ApiWeatherFields(o) == { <<WPoint(o, 0, 0, 5, 270)>>, <<WPoint(o, 0, 0, 15, 0)>> }

InitApi ==
  /\ request \in ApiRequests
  /\ obstacles \in ApiObstacleLists(request.start)
  /\ weather_data \in ApiWeatherFields(request.start)
  /\ pc = "validate_coordinates"
  /\ samples = <<>>
  /\ active_list = <<>>
  /\ grid = <<>>
  /\ grid_points = <<>>
  /\ extended_grid = <<>>
  /\ graph = <<>>
  /\ path_nodes = <<>>
  /\ route_points = <<>>
  /\ total_time = 0
  /\ total_distance = 0
  /\ InitHandler
  /\ InitCalls
  /\ InitWeatherService

\* the handler up to the call of the service: validate_coordinates raises
\* HTTPException(400) inside the try block of the handler
ValidateCoordinates ==
  /\ pc = "validate_coordinates"
  /\ IF /\ validate_coordinates(request.res, request.start)
        /\ validate_coordinates(request.res, request.end)
     THEN pc' = "get_obstacles_in_area" /\ UNCHANGED raised
     ELSE /\ raised' = "HTTPException_400"
          /\ pc' = answered(calculate_route_except(
                     [kind |-> "HTTPException", status_code |-> 400]))
  /\ UNCHANGED <<route_id, saved_route, response, deadline_passed, previous_route>>
  /\ UNCHANGED <<beside_planner, request, obstacles, weather_data, sampler_vars, grid_points,
                 route_vars, total_distance>>

\* await obstacle_crud.get_obstacles_in_area(...) returns the rows, or the
\* database call raises: a timeout or any other exception
GetObstacles ==
  /\ pc = "get_obstacles_in_area"
  /\ \E outcome \in {"rows", "asyncio.TimeoutError", "Exception"} :
       IF outcome = "rows"
       THEN pc' = "generate_route_grid" /\ UNCHANGED raised
       ELSE /\ raised' = outcome
            /\ pc' = answered(calculate_route_except(service_except(
                       [kind |-> outcome])))
  /\ UNCHANGED <<route_id, saved_route, response, deadline_passed, previous_route>>
  /\ UNCHANGED <<beside_planner, request, obstacles, weather_data, sampler_vars, grid_points,
                 route_vars, total_distance>>

\* the wall clock passes start_time + request.max_calculation_time while the
\* sampling loop runs or while the graph is built and searched
DeadlinePasses ==
  /\ pc \in {"sampling", "find_optimal_route"}
  /\ ~deadline_passed
  /\ deadline_passed' = TRUE
  /\ UNCHANGED <<answer_vars, previous_route>>
  /\ UNCHANGED <<beside_planner, request, obstacles, weather_data, pc, sampler_vars, grid_points,
                 route_vars, total_distance>>

\* the client sends the same request once more: same obstacles, same wind
\* field; the module random of the process keeps the state it has
PlanAgain ==
  /\ pc = "done"
  /\ previous_route = <<>>
  /\ previous_route' = route_points
  /\ pc' = "validate_coordinates"
  /\ samples' = <<>>
  /\ active_list' = <<>>
  /\ grid' = <<>>
  /\ grid_points' = <<>>
  /\ extended_grid' = <<>>
  /\ graph' = <<>>
  /\ path_nodes' = <<>>
  /\ route_points' = <<>>
  /\ total_time' = 0
  /\ total_distance' = 0
  /\ raised' = ""
  /\ route_id' = ""
  /\ saved_route' = NoRow
  /\ response' = NoResponse
  /\ deadline_passed' = FALSE
  /\ UNCHANGED <<beside_planner, request, obstacles, weather_data>>

NextApi ==
  \/ ValidateCoordinates
  \/ GetObstacles
  \/ GenerateGridStart
  \/ GenerateGridRaises
  \/ SampleAccept
  \/ SampleRetire
  \/ GenerateGridFinish
  \/ FindOptimalRoute
  \/ BuildResponse
  \/ DeadlinePasses
  \/ PlanAgain

\* the handler of POST /routes/calculate from the request to the answer
SpecApi == InitApi /\ [][NextApi]_vars

\* ------------------------------------------- WeatherService.get_weather_data
\* A call of get_weather_data on a service with or without an API key, whose
\* session is open (the service is used as a context manager), missing, or
\* was closed at the end of an earlier call.
InitWeather ==
  /\ api_key \in {"", "key"}
  /\ session \in {"none", "open"}
  /\ bounds \in BoundsArguments
  /\ results = <<>>
  /\ weather_points = <<>>
  /\ weather_pc = "get_weather_data"
  /\ request = Req(OriginA, 2, 0, 2000, 2000)
  /\ obstacles = <<>>
  /\ weather_data = <<>>
  /\ pc = "get_weather_data"
  /\ samples = <<>>
  /\ active_list = <<>>
  /\ grid = <<>>
  /\ grid_points = <<>>
  /\ extended_grid = <<>>
  /\ graph = <<>>
  /\ path_nodes = <<>>
  /\ route_points = <<>>
  /\ total_time = 0
  /\ total_distance = 0
  /\ InitHandler
  /\ InitCalls

\* the result of the call: the field, or the exception that leaves the call
weather_return(r) ==
  /\ weather_points' = r.weather_points
  /\ weather_pc' = IF r.raised THEN "raised" ELSE "returned"

\* get_weather_data without an API key: the default field
GetWeatherDataNoKey ==
  /\ weather_pc = "get_weather_data"
  /\ api_key = ""
  /\ weather_return(create_default_weather_data(bounds))
  /\ UNCHANGED <<api_key, session, bounds, results, beside_weather>>

\* get_weather_data with an API key, up to the gather: the request grid is
\* built, and a service without a session opens one of its own; an
\* exception of _create_weather_grid is caught and answered with the
\* default field
GetWeatherDataStart ==
  /\ weather_pc = "get_weather_data"
  /\ api_key # ""
  /\ IF create_weather_grid(bounds).raised
     THEN /\ weather_return(create_default_weather_data(bounds))
          /\ UNCHANGED session
     ELSE /\ weather_pc' = "gather"
          /\ session' = IF session = "none" THEN "temporary" ELSE session
          /\ UNCHANGED weather_points
  /\ UNCHANGED <<api_key, bounds, results, beside_weather>>

\* one task of the gather: the request of the next grid point is answered
FetchWeatherPoint ==
  /\ weather_pc = "gather"
  /\ Len(results) < Len(create_weather_grid(bounds).points)
  /\ \E answer \in ApiAnswers :
       LET p == create_weather_grid(bounds).points[Len(results) + 1]
       IN results' = Append(results, fetch_weather_point(session, answer, p.lat, p.lon))
  /\ UNCHANGED <<api_key, session, bounds, weather_points, weather_pc, beside_weather>>

\* get_weather_data after the gather: the session the call opened is closed
\* and stays in self.session; the points fetched are the field, and the
\* default field takes their place when there is none
GetWeatherDataFinish ==
  /\ weather_pc = "gather"
  /\ Len(results) = Len(create_weather_grid(bounds).points)
  /\ session' = IF session = "temporary" THEN "closed" ELSE session
  /\ IF fetched_points(results) = <<>>
     THEN weather_return(create_default_weather_data(bounds))
     ELSE weather_return([raised |-> FALSE, weather_points |-> fetched_points(results)])
  /\ UNCHANGED <<api_key, bounds, results, beside_weather>>

\* the next call of get_weather_data on the same WeatherService: api_key
\* and session are those the call before left behind
GetWeatherDataAgain ==
  /\ weather_pc \in {"returned", "raised"}
  /\ weather_pc' = "get_weather_data"
  /\ results' = <<>>
  /\ weather_points' = <<>>
  /\ UNCHANGED <<api_key, session, bounds, beside_weather>>

NextWeather ==
  \/ GetWeatherDataNoKey
  \/ GetWeatherDataStart
  \/ FetchWeatherPoint
  \/ GetWeatherDataFinish
  \/ GetWeatherDataAgain

SpecWeather == InitWeather /\ [][NextWeather]_vars

\* ------------------------------------------------ functions on their own
\* The functions of the planner called on their own, with arguments of the
\* caller's choice.  True wind angles run from -450 to 810 degrees in steps
\* of 5 degrees, wind speeds from 0 to MaxWindSpeed m/s.
TwaArguments == {50 * k : k \in (0 - 90)..162}

WindSpeedArguments == 0..MaxWindSpeed

InitFunctions ==
  /\ InitCalls
  /\ InitHandler
  /\ InitWeatherService
  /\ request = Req(OriginA, 2, 0, 2000, 2000)
  /\ obstacles = <<>>
  /\ weather_data = <<>>
  /\ pc = "idle"
  /\ samples = <<>>
  /\ active_list = <<>>
  /\ grid = <<>>
  /\ grid_points = <<>>
  /\ extended_grid = <<>>
  /\ graph = <<>>
  /\ path_nodes = <<>>
  /\ route_points = <<>>
  /\ total_time = 0
  /\ total_distance = 0

\* DEFAULT_POLAR.get_speed(twa, wind_speed); a behaviour is one call
CallGetSpeed ==
  /\ call = ""
  /\ \E twa \in TwaArguments, wind_speed \in WindSpeedArguments :
       /\ call' = "get_speed"
       /\ args' = <<twa, wind_speed>>
       /\ result' = get_speed(twa, wind_speed)
  /\ UNCHANGED <<planner_vars, weather_vars, gpx, startup_vars>>

\* the weather points of the fields handed to get_wind_at_point: two of them
\* at one position, and positions at equal distances from a query point
WindFieldPoints(o) ==
  {WPoint(o, 0, 0, 5, 270), WPoint(o, 2, 0, 8, 90), WPoint(o, 0, 2, 12, 180),
   WPoint(o, 2, 0, 3, 0)}

WindFieldArguments(o) ==
  {<<>>}
    \cup {<<a>> : a \in WindFieldPoints(o)}
    \cup {<<a, b>> : a \in WindFieldPoints(o), b \in WindFieldPoints(o)}
    \cup {<<a, b, c>> : a \in WindFieldPoints(o), b \in WindFieldPoints(o),
                        c \in WindFieldPoints(o)}

QueryPointArguments(o) == {Off(o, 0, 0), Off(o, 1, 0), Off(o, 2, 1), Off(o, 3, 3)}

\* WeatherData.get_wind_at_point(point) on a field of weather points
CallGetWindAtPoint ==
  /\ call = ""
  /\ \E wps \in WindFieldArguments(OriginA), point \in QueryPointArguments(OriginA) :
       /\ call' = "get_wind_at_point"
       /\ args' = <<wps, point>>
       /\ result' = get_wind_at_point(2000, wps, point)
  /\ UNCHANGED <<planner_vars, weather_vars, gpx, startup_vars>>

NextFunctions ==
  \/ CallGetSpeed
  \/ CallGetWindAtPoint

SpecFunctions == InitFunctions /\ [][NextFunctions]_vars

\* ------------------------------------------------------ application startup
\* what one attempt of init_db ends in: the tables are created, or
\* engine.begin / create_all raises; asyncio.CancelledError is a
\* BaseException and no Exception
DbOutcomes ==
  {"ok", "ConnectionRefusedError", "OperationalError", "asyncio.CancelledError"}

is_exception(outcome) == outcome \in {"ConnectionRefusedError", "OperationalError"}

Attempted(outcome) == [kind |-> "attempt", outcome |-> outcome, seconds |-> 0]
Slept(seconds) == [kind |-> "sleep", outcome |-> "", seconds |-> seconds]

\* faulty variant: the except branch sleeps after every failed attempt, the
\* last one too
init_db_except_always_sleeps(a) == "sleep"

\* init_db, the except branch: sleep before the next attempt, re-raise after
\* the last one
init_db_except(a) == IF a < max_retries - 1 THEN "sleep" ELSE "raise"

\* lifespan, the except branch around init_db: the exception is logged and
\* the application starts
lifespan_except(outcome) == IF is_exception(outcome) THEN "yield" ELSE "cancelled"

InitStartup ==
  /\ InitCalls
  /\ InitHandler
  /\ InitWeatherService
  /\ request = Req(OriginA, 2, 0, 2000, 2000)
  /\ obstacles = <<>>
  /\ weather_data = <<>>
  /\ pc = "idle"
  /\ samples = <<>>
  /\ active_list = <<>>
  /\ grid = <<>>
  /\ grid_points = <<>>
  /\ extended_grid = <<>>
  /\ graph = <<>>
  /\ path_nodes = <<>>
  /\ route_points = <<>>
  /\ total_time = 0
  /\ total_distance = 0

\* one turn of the for loop of init_db, up to the sleep: the attempt
\* succeeds and init_db returns, or it fails and the except branch sleeps
\* or re-raises into lifespan; an exception that is no Exception leaves
\* init_db and lifespan at once
InitDbAttempt ==
  /\ lifespan_pc = "init_db"
  /\ attempt < max_retries
  /\ \E outcome \in DbOutcomes :
       /\ events' = Append(events, Attempted(outcome))
       /\ IF outcome = "ok"
          THEN /\ lifespan_pc' = "yield"
               /\ UNCHANGED startup_error
          ELSE IF ~is_exception(outcome)
          THEN /\ lifespan_pc' = "cancelled"
               /\ UNCHANGED startup_error
          ELSE IF init_db_except(attempt) = "sleep"
          THEN /\ lifespan_pc' = "asyncio.sleep"
               /\ UNCHANGED startup_error
          ELSE /\ lifespan_pc' = lifespan_except(outcome)
               /\ startup_error' = outcome
  /\ UNCHANGED <<attempt, planner_vars, weather_vars, call_vars, gpx>>

\* await asyncio.sleep(retry_delay) and the step of the for loop; the
\* sleep is a point where the startup can be cancelled; init_db returns
\* when the loop has no turn left
InitDbSleep ==
  /\ lifespan_pc = "asyncio.sleep"
  /\ \E cancelled \in BOOLEAN :
       IF cancelled
       THEN /\ lifespan_pc' = "cancelled"
            /\ UNCHANGED <<attempt, events>>
       ELSE /\ events' = Append(events, Slept(retry_delay))
            /\ attempt' = attempt + 1
            /\ lifespan_pc' = IF attempt + 1 < max_retries THEN "init_db" ELSE "yield"
  /\ UNCHANGED <<startup_error, planner_vars, weather_vars, call_vars, gpx>>

\* lifespan after the yield: the application has served its requests and
\* shuts down; an exception of engine.dispose is logged
LifespanShutdown ==
  /\ lifespan_pc = "yield"
  /\ lifespan_pc' = "shutdown"
  /\ UNCHANGED <<attempt, events, startup_error, planner_vars, weather_vars, call_vars, gpx>>

NextStartup ==
  \/ InitDbAttempt
  \/ InitDbSleep
  \/ LifespanShutdown

SpecStartup == InitStartup /\ [][NextStartup]_vars

\* ------------------------------------------- direct calls of the optimizer
\* RouteOptimizer.find_optimal_route is also called with a grid of the
\* caller's own: any list of at most MaxGridLen points of GridPointsOf.
OptRequests ==
  {Req(OriginA, 4, 0, 2000, 2000), Req(OriginB, 6, 0, 100, 500)}

GridPointsOf(req) ==
  {req.start, req.end, Off(req.end, 0 - 2, 0), Off(req.start, 2, 4)}

RECURSIVE SeqsUpTo(_, _)
SeqsUpTo(S, n) ==
  IF n = 0 THEN {<<>>}
  ELSE LET shorter == SeqsUpTo(S, n - 1)
       IN shorter \cup {Append(q, x) : q \in shorter, x \in S}

OptObstacleLists(o) ==
  { <<>>,
    <<Obs(o, 1, 0 - 1, 3, 1, "wkb")>>,
    <<Obs(o, 1, 0 - 1, 3, 1, "corrupt")>>,
    <<Obs(o, 1, 1, 3, 3, "shape"), Obs(o, 1, 0 - 1, 3, 1, "corrupt")>> }

OptWeatherFields(o) ==
  { <<>>,
    <<WPoint(o, 0, 0, 15, 0)>>,
    <<WPoint(o, 0, 0, 15, 45), WPoint(o, 4, 4, 5, 180)>> }

InitOptimizer ==
  /\ request \in OptRequests
  /\ obstacles \in OptObstacleLists(request.start)
  /\ weather_data \in OptWeatherFields(request.start)
  /\ grid_points \in SeqsUpTo(GridPointsOf(request), MaxGridLen)
  /\ pc = "find_optimal_route"
  /\ samples = <<>>
  /\ active_list = <<>>
  /\ grid = <<>>
  /\ extended_grid = <<>>
  /\ graph = <<>>
  /\ path_nodes = <<>>
  /\ route_points = <<>>
  /\ total_time = 0
  /\ total_distance = 0
  /\ InitHandler
  /\ InitCalls
  /\ InitWeatherService

NextOptimizer == FindOptimalRoute

SpecOptimizer == InitOptimizer /\ [][NextOptimizer]_vars

\* -------------------------------------------------- reference definitions
\* the least total time over all paths from node s in the graph
RECURSIVE least_times(_, _, _, _)
least_times(G, n, d, rounds) ==
  IF rounds = 0 THEN d
  ELSE least_times(G, n,
         [v \in 1..n |->
            LET via == {Plus(d[e[1]], G[e].time) : e \in {f \in DOMAIN G : f[2] = v}}
                         \cup {Plus(d[e[2]], G[e].time) : e \in {f \in DOMAIN G : f[1] = v}}
                         \cup {d[v]}
            IN CHOOSE m \in via : \A k \in via : m <= k],
         rounds - 1)

least_time(G, n, s, t) ==
  least_times(G, n, [v \in 1..n |-> IF v = s THEN 0 ELSE Inf], n)[t]

\* the nodes joined to a node of R by a chain of edges
RECURSIVE reachable(_, _)
reachable(G, R) ==
  LET more == R \cup {e[2] : e \in {f \in DOMAIN G : f[1] \in R}}
                \cup {e[1] : e \in {f \in DOMAIN G : f[2] \in R}}
  IN IF more = R THEN R ELSE reachable(G, more)

start_node == find_nearest_node(request.res, request.start, extended_grid)
end_node == find_nearest_node(request.res, request.end, extended_grid)

\* t can be reached from s along edges of the graph
path_exists(G, s, t) == t \in reachable(G, {s})

searched == pc \in {"route_found", "done"}

\* ------------------------------------------------------------- claims
returned_grid == pc \in {"find_optimal_route", "route_found", "done"}

\* the points p and q are two nodes of the graph joined by an edge
joined(p, q) ==
  \E i \in 1..Len(extended_grid), j \in 1..Len(extended_grid) :
    extended_grid[i] = p /\ extended_grid[j] = q /\ i # j
    /\ EdgeKey(i, j) \in DOMAIN graph

legs_joined ==
  \A k \in 1..(Len(route_points) - 1) : joined(route_points[k], route_points[k + 1])

\* some obstacle polygon holds start and end (and so their segment) in its interior
endpoints_inside_obstacle ==
  \E i \in 1..Len(obstacles) :
    LET g == obstacles[i].geom
    IN /\ g.x1 < request.start.x /\ request.start.x < g.x2
       /\ g.y1 < request.start.y /\ request.start.y < g.y2
       /\ g.x1 < request.end.x /\ request.end.x < g.x2
       /\ g.y1 < request.end.y /\ request.end.y < g.y2

direct_distance == calculate_distance(request.res, request.start, request.end)

\* C1: the list returned by generate_route_grid contains both the start
\* point and the end point of the request.
C1_GridContainsEndpoints ==
  returned_grid =>
    request.start \in Range(grid_points) /\ request.end \in Range(grid_points)

\* C2: in every state of the sampling loop and in the returned grid, two
\* samples at different positions are at least min_distance_nm apart.
C2_SamplesSeparated ==
  (pc = "sampling" \/ returned_grid) =>
    \A i \in 1..Len(samples), j \in 1..Len(samples) :
      samples[i] # samples[j] =>
        DistSq(request.res, samples[i], samples[j]) >= request.res * request.res

\* C3: every point of the returned grid lies inside the corridor polygon,
\* the buffered start-end segment minus the obstacles (stated for a request
\* whose start and end are outside every obstacle).
C3_GridInsideCorridor ==
  (/\ returned_grid
   /\ \A k \in 1..Len(obstacles) :
        /\ ~InPolygon(request.start, obstacles[k].geom)
        /\ ~InPolygon(request.end, obstacles[k].geom)) =>
    \A i \in 1..Len(grid_points) : create_boundary(request, obstacles, grid_points[i])

\* C4: after build_graph no edge of the graph intersects any obstacle of
\* the obstacle list passed in.
C4_NoEdgeCrossesObstacle ==
  searched =>
    \A e \in DOMAIN graph : \A i \in 1..Len(obstacles) :
      ~LineIntersects(extended_grid[e[1]], extended_grid[e[2]], obstacles[i].geom)

\* C5: every route returned by find_optimal_route is non-empty, begins at
\* the requested origin and ends at the requested destination.
C5_RouteFromOriginToDestination ==
  searched =>
    /\ route_points # <<>>
    /\ route_points[1] = request.start
    /\ route_points[Len(route_points)] = request.end

\* C6 as claimed: in every returned route, consecutive route points are
\* joined by an edge of the graph.
C6_EveryRouteFollowsEdges == searched => legs_joined

\* C6 as amended: when a path from the start node to the goal node exists,
\* consecutive points of the returned route are joined by an edge of the graph.
C6_SearchRouteFollowsEdges ==
  (searched /\ path_exists(graph, start_node, end_node)) => legs_joined

C6_Witness ==
  searched /\ path_exists(graph, start_node, end_node) /\ Len(route_points) >= 3

\* C7: when a path from the start node to the goal node exists, the time of
\* the returned path is at most the time of every start-goal path of the
\* graph (up to one rounding unit per node).
C7_RouteIsFastest ==
  (searched /\ path_nodes # <<>>) =>
    total_time <= least_time(graph, Len(extended_grid), start_node, end_node)
                    + Len(extended_grid)

C9_ObstacleForcesDetour ==
  (pc = "done" /\ endpoints_inside_obstacle /\ request.start # request.end) =>
    total_distance > direct_distance

\* C9 as amended: when start and end lie inside an obstacle polygon, the
\* returned route does not detour: it is the straight route <<start, end>>
\* or the single start point, and its total distance is at most the direct
\* distance.
C9_NoDetourInsideObstacle ==
  (pc = "done" /\ endpoints_inside_obstacle) =>
    /\ route_points \in {<<request.start, request.end>>, <<request.start>>}
    /\ total_distance <= direct_distance
    /\ Len(route_points) = 2 => total_distance = direct_distance

C9_Witness ==
  /\ pc = "done" /\ endpoints_inside_obstacle
  /\ request.start # request.end
  /\ Len(grid_points) >= 3

\* C10: when no path joins the start node and the goal node, the route is
\* exactly <<start, end>> and its time the travel time of the direct leg,
\* computed with the wind at the start point.
C10_FallbackRoute ==
  (searched /\ ~path_exists(graph, start_node, end_node)) =>
    /\ route_points = <<request.start, request.end>>
    /\ total_time = calculate_travel_time(request.res, request.start, request.end,
                                          weather_data)

C10_Witness ==
  /\ searched /\ ~path_exists(graph, start_node, end_node)
  /\ Len(extended_grid) >= 3
  /\ total_time < Inf

\* C11: a route returned by find_optimal_route after a failed search can be
\* told from a route that the search found: what find_optimal_route returns
\* is the pair (route_points, total_time), so a route that was found differs
\* from the fallback pair of the same call.
C11_FallbackDistinguishable ==
  (searched /\ path_nodes # <<>>) =>
    <<route_points, total_time>> #
      <<fallback_route(request.res, request.start, request.end,
                       weather_data).route_points,
        fallback_route(request.res, request.start, request.end,
                       weather_data).total_time>>

answered_request == status_code # None

\* C12: a request from one point to another whose planning ran past its
\* deadline is answered with status 408 and without a route.
C12_DeadlineEndsWithTimeout ==
  (answered_request /\ deadline_passed /\ request.start # request.end) =>
    status_code = 408 /\ response = NoResponse

\* C13: the status of an error answer is the status of the kind of error
\* that was raised: 400 for the HTTPException(400) of validate_coordinates,
\* 408 for a timeout, 404 for the HTTPException(404) of the service, 500 for
\* any other exception.
C13_ErrorKindsKeepStatus ==
  /\ raised = "HTTPException_400" => status_code = 400
  /\ raised = "asyncio.TimeoutError" => status_code = 408
  /\ raised = "HTTPException_404" => status_code = 404
  /\ raised = "Exception" => status_code = 500

\* the points of the waypoints of the response
waypoint_points == [i \in 1..Len(response.waypoints) |-> response.waypoints[i].point]

\* C14: the response carries the computed route whether or not the route
\* was saved: its waypoints are the points of the route, its distance and
\* time the computed totals; its id is the fresh id when create_route
\* raised and the id of the saved row when it did not.
C14_ResponseKeepsRouteAndId ==
  pc = "done" =>
    /\ waypoint_points = route_points
    /\ response.distance_nm = calculate_total_distance(request.res, route_points)
    /\ response.estimated_time_hours = total_time
    /\ saved_route = NoRow => response.id = route_id
    /\ saved_route # NoRow => response.id = saved_route
    /\ response.id \in Uuids

C14_Witness ==
  /\ pc = "done"
  /\ saved_route = NoRow
  /\ response.id = route_id
  /\ Len(response.waypoints) >= 3

\* C15: for a request whose start point equals its end point no route is
\* computed and no response is built: the answer is not the status 201 of
\* a computed route.
C15_SameEndpointsRejected ==
  request.start = request.end =>
    /\ route_points = <<>>
    /\ response = NoResponse
    /\ status_code # 201

\* settings.GDANSK_BAY_BOUNDS in tenths of a degree
GDANSK_BAY_BOUNDS == [north |-> 548, south |-> 543, east |-> 190, west |-> 183]

\* the point p, at latitude p.y * res / 120000 and longitude
\* p.x * res / 120000 degrees, lies in the rectangle GDANSK_BAY_BOUNDS
in_operating_rectangle(res, p) ==
  /\ GDANSK_BAY_BOUNDS.south * 12000 <= p.y * res
  /\ p.y * res <= GDANSK_BAY_BOUNDS.north * 12000
  /\ GDANSK_BAY_BOUNDS.west * 12000 <= p.x * res
  /\ p.x * res <= GDANSK_BAY_BOUNDS.east * 12000

\* C16: for a request from one point to another whose start or end point
\* lies outside the operating rectangle no route is computed, and the
\* answer is not the status 201 of a computed route.
C16_OutsideRectangleRejected ==
  (/\ request.start # request.end
   /\ ~(/\ in_operating_rectangle(request.res, request.start)
        /\ in_operating_rectangle(request.res, request.end))) =>
    /\ route_points = <<>>
    /\ status_code # 201

\* C19: the same request, planned a second time with the same obstacles and
\* the same wind field, gets the route it got the first time.
C19_SameRequestSameRoute ==
  (pc = "done" /\ previous_route # <<>>) => route_points = previous_route

\* C20: when the start point and the end point are distinct and closer than
\* min_distance_nm, the grid returned by generate_route_grid is the list
\* <<start, end>>.
C20_ShortLegGridIsEndpoints ==
  (returned_grid /\ 0 < direct_distance /\ direct_distance < request.res) =>
    grid_points = <<request.start, request.end>>

\* the call returned the default field: there was no API key, or no point
\* was fetched
default_field_returned ==
  /\ weather_pc = "returned"
  /\ api_key = "" \/ fetched_points(results) = <<>>

well_formed_bounds == bounds.is_dict /\ has_keys(bounds)

\* C17: get_weather_data never leaves with an exception, and the field it
\* returns has at least one weather point.
C17_WeatherDataNeverRaises ==
  /\ weather_pc # "raised"
  /\ weather_pc = "returned" => Len(weather_points) >= 1

C17_Witness ==
  /\ weather_pc = "returned"
  /\ api_key # ""
  /\ ~has_keys(bounds)
  /\ Len(results) = 1 /\ results[1].exception
  /\ Len(weather_points) = 1

\* C18 as claimed: the default field returned for bounds with all four keys
\* has 3x3 points, from south to north and from west to east, and every one
\* of them has wind speed 5 m/s and wind direction 270 degrees.
C18_DefaultFieldUniform ==
  (default_field_returned /\ well_formed_bounds) =>
    /\ Len(weather_points) = 9
    /\ \A k \in 1..Len(weather_points) :
         /\ weather_points[k].wind.speed = 50
         /\ weather_points[k].wind.direction = 270

\* C18 as amended: the default field returned for bounds with all four keys
\* has 3x3 points; the point in row i and column j (0, 1, 2) lies at
\* south + i * (north - south) / 2, west + j * (east - west) / 2 and has
\* wind speed 5 + (i + j) / 2 m/s and wind direction 270 + 10 * (i - j)
\* degrees.  For any other bounds the default field is the single point
\* (54.52, 18.55) with wind speed 5 m/s and wind direction 270 degrees.
C18_DefaultFieldGraded ==
  default_field_returned =>
    IF well_formed_bounds
    THEN /\ Len(weather_points) = 9
         /\ \A i \in 0..2, j \in 0..2 :
              LET wp == weather_points[3 * i + j + 1]
              IN /\ 2 * wp.lat = 2 * bounds.south + i * (bounds.north - bounds.south)
                 /\ 2 * wp.lon = 2 * bounds.west + j * (bounds.east - bounds.west)
                 /\ wp.wind.speed = 50 + 5 * (i + j)
                 /\ wp.wind.direction = 270 + 10 * (i - j)
    ELSE /\ Len(weather_points) = 1
         /\ weather_points[1].lat = 10904 /\ weather_points[1].lon = 3710
         /\ weather_points[1].wind = [speed |-> 50, direction |-> 270]

C18_Witness ==
  /\ default_field_returned /\ well_formed_bounds
  /\ api_key # ""
  /\ Len(results) = 9
  /\ weather_points[9].wind = [speed |-> 70, direction |-> 270]
  /\ weather_points[3].wind = [speed |-> 60, direction |-> 250]

\* C21: get_speed gives the same boat speed for twa, -twa and 360 - twa;
\* it does not decrease when the wind speed grows, and from 15 m/s on (wind
\* factor 1.5) it stays what it is at 15 m/s.
C21_PolarSymmetricMonotone ==
  call = "get_speed" =>
    LET twa == args[1]
        wind_speed == args[2]
    IN /\ result = get_speed(0 - twa, wind_speed)
       /\ result = get_speed(3600 - twa, wind_speed)
       /\ \A slower \in 0..wind_speed : get_speed(twa, slower) <= result
       /\ wind_speed >= max_wind_factor => result = get_speed(twa, max_wind_factor)

C21_Witness ==
  /\ call = "get_speed"
  /\ args[1] > 1800 /\ args[1] < 3600
  /\ args[2] > max_wind_factor
  /\ result > 0 /\ result # get_speed(1800, args[2])

\* C22: every waypoint of the response but the last carries the values of
\* the leg that starts at it: bearing, distance, wind speed and direction,
\* boat speed and leg time are all present.
C22_LegValuesPopulated ==
  pc = "done" =>
    \A i \in 1..(Len(response.waypoints) - 1) :
      /\ response.waypoints[i].bearing_to_next # Absent
      /\ response.waypoints[i].distance_to_next_nm # Absent
      /\ response.waypoints[i].wind_speed_ms # Absent
      /\ response.waypoints[i].wind_direction_deg # Absent
      /\ response.waypoints[i].boat_speed_kts # Absent
      /\ response.waypoints[i].estimated_time_to_next_hours # Absent

\* C23: the GPX document exported for a route that was saved has one trkseg
\* with one trkpt per waypoint of the response, in order, at the latitude
\* and longitude of the waypoint.
C23_GpxHasEveryWaypoint ==
  (gpx # <<>> /\ saved_route # NoRow /\ request.start # request.end) =>
    /\ gpx[1].found
    /\ Len(gpx[1].trksegs) = 1
    /\ gpx[1].trksegs[1] =
         [i \in 1..Len(response.waypoints) |->
            [lat |-> response.waypoints[i].point.y,
             lon |-> response.waypoints[i].point.x]]

\* C24: the heuristic of the search never over-estimates: for every node,
\* the heuristic time to the goal node is at most the least time of a path
\* of the graph from the node to the goal node (up to one rounding unit per
\* node).
C24_HeuristicAdmissible ==
  searched =>
    \A n \in 1..Len(extended_grid) :
      heuristic_function(request.res, n, end_node, extended_grid)
        <= least_time(graph, Len(extended_grid), n, end_node) + Len(extended_grid)

\* C25: every edge of the graph has a finite travel time, and a route that
\* the search returned has a finite total time.
C25_NoInfiniteEdge ==
  searched =>
    /\ \A e \in DOMAIN graph : graph[e].time < Inf
    /\ path_nodes # <<>> => total_time < Inf

\* C26: get_wind_at_point returns the wind of the weather point nearest to
\* the query point, the one added first among those at the same least
\* distance, and 5 m/s from 270 degrees when the field has no point.
C26_NearestWindFirstOnTie ==
  call = "get_wind_at_point" =>
    LET wps == args[1]
        point == args[2]
        d(i) == DistSq(2000, point, Pt(wps[i].lon, wps[i].lat))
    IN IF wps = <<>>
       THEN result = [speed |-> 5, direction |-> 270]
       ELSE \E i \in 1..Len(wps) :
              /\ result = wps[i].wind
              /\ \A j \in 1..Len(wps) : d(i) <= d(j)
              /\ \A j \in 1..(i - 1) : d(i) < d(j)

\* a field of three points where the second and the third are both nearest
\* to the query point and carry different winds
C26_Witness ==
  /\ call = "get_wind_at_point"
  /\ Len(args[1]) = 3
  /\ LET wps == args[1]
         d(i) == DistSq(2000, args[2], Pt(wps[i].lon, wps[i].lat))
     IN /\ d(2) = d(3)
        /\ d(2) < d(1)
        /\ wps[2].wind # wps[3].wind
        /\ result = wps[2].wind

\* C28: while the sampler runs, the cell dictionary indexes every accepted
\* sample: no two samples fell in one cell, and the entry of the cell of a
\* sample is that sample.
C28_GridIndexesEverySample ==
  pc = "sampling" =>
    /\ \A i \in 1..Len(samples) :
         /\ cell_key(samples[i]) \in DOMAIN grid
         /\ grid[cell_key(samples[i])] = samples[i]
    /\ \A i \in 1..Len(samples), j \in 1..Len(samples) :
         i # j => cell_key(samples[i]) # cell_key(samples[j])

\* the points of the plane that lie in the corridor of the sampler
corridor_points(req, obs) ==
  LET reach == (margin_degrees(req) + 1) \div 2
  IN {p \in {Pt(px, py) :
               px \in (Min2(req.start.x, req.end.x) - reach)
                        ..(Max2(req.start.x, req.end.x) + reach),
               py \in (Min2(req.start.y, req.end.y) - reach)
                        ..(Max2(req.start.y, req.end.y) + reach)} :
        corridor_contains(req, obs, p)}

\* n more points of C can join the points chosen, every two of them at
\* least min_distance_nm apart
RECURSIVE separated_points_fit(_, _, _, _)
separated_points_fit(res, C, chosen, n) ==
  \/ n = 0
  \/ \E p \in C :
       /\ \A q \in chosen : DistSq(res, p, q) >= res * res
       /\ separated_points_fit(res, C, chosen \cup {p}, n - 1)

\* C27: while the sampler runs on a corridor that holds the start point, it
\* has accepted no more samples than there are points in the corridor that
\* lie min_distance_nm apart from one another.
C27_SamplesFitInCorridor ==
  (pc = "sampling" /\ corridor_contains(request, obstacles, request.start)) =>
    separated_points_fit(request.res, corridor_points(request, obstacles), {},
                         Len(samples))

\* C29: over the calls of get_weather_data on one WeatherService, no point
\* is fetched on a closed session: while a call gathers the points of the
\* grid of its bounds, the session of the service is not one that an earlier
\* call has closed.
C29_NoFetchOnClosedSession ==
  (weather_pc = "gather" /\ results # <<>> /\ has_keys(bounds)) => session # "closed"

attempts_made == Cardinality({i \in 1..Len(events) : events[i].kind = "attempt"})

failed_attempt(e) == e.kind = "attempt" /\ is_exception(e.outcome)

\* C30: init_db makes at most 5 attempts and none after a success; it
\* sleeps 5 seconds between a failed attempt and the next one and at no
\* other time, so not after the last attempt; it raises after the 5th
\* failed attempt and not before, and lifespan, having caught that
\* exception, has reached its yield: the application serves requests.
C30_InitDbRetriesThenStartsAnyway ==
  /\ attempts_made <= 5
  /\ \A i \in 1..Len(events) :
       /\ (events[i].kind = "attempt" /\ events[i].outcome = "ok") => i = Len(events)
       /\ events[i].kind = "sleep" =>
            /\ events[i].seconds = 5
            /\ i > 1 /\ failed_attempt(events[i - 1])
            /\ lifespan_pc = "init_db" \/ (i < Len(events) /\ events[i + 1].kind = "attempt")
       /\ (failed_attempt(events[i]) /\ i < Len(events)) => events[i + 1].kind = "sleep"
  /\ events # <<>> /\ events[Len(events)].kind = "sleep" => lifespan_pc = "init_db"
  /\ startup_error # "" <=>
       /\ attempts_made = 5
       /\ \A i \in 1..Len(events) : events[i].kind = "attempt" => failed_attempt(events[i])
  /\ startup_error # "" => lifespan_pc \in {"yield", "shutdown"}
  /\ (attempts_made = 5 /\ failed_attempt(events[Len(events)]))
       => startup_error = events[Len(events)].outcome

\* the 5th attempt has failed after four sleeps, and the application is at
\* the yield of lifespan
C30_Witness ==
  /\ lifespan_pc = "yield"
  /\ attempts_made = 5
  /\ Len(events) = 9
  /\ startup_error = "OperationalError"

====
